---- MODULE Spec2Model ----
(***************************************************************************)
(* A model of the core of iptsd: the bounded byte Reader                   *)
(* (src/src/common/reader.hpp) and the contact Stabilizer                  *)
(* (src/unnamed/part_000), the search for local maxima (maximas.hpp) and   *)
(* the stylus report decoder (src/stylus.go).  Every component has a       *)
(* specification of its own (SpecReader, SpecStabilizer, SpecMaximas,      *)
(* SpecStylus); the variables of the other components                      *)
(* stay at their initial values.                                           *)
(***************************************************************************)
EXTENDS Integers, Sequences, FiniteSets, TLC

VARIABLES m_buffer, readers, last, terminated,
          m_config, m_frames, input, submitted, frame, previous, lastop, calls, repeated,
          fresh,
          heatmap, threshold, maximas, searched,
          stylus_buffer, stylus_cursor, stylus_frame, stylus_size, stylus_report,
          stylus_events, stylus_pc, stylus_wrapped

\* the Reader's state
rvars == <<m_buffer, readers, last, terminated>>
\* the Stabilizer's state
svars == <<m_config, m_frames, input, submitted, frame, previous, lastop, calls, repeated,
           fresh>>
\* the state of a maximas::find call
mvars == <<heatmap, threshold, maximas, searched>>
\* the state of an IptsStylusHandleInput call
yvars == <<stylus_buffer, stylus_cursor, stylus_frame, stylus_size, stylus_report,
           stylus_events, stylus_pc, stylus_wrapped>>

vars == <<m_buffer, readers, last, terminated,
          m_config, m_frames, input, submitted, frame, previous, lastop, calls, repeated,
          fresh,
          heatmap, threshold, maximas, searched,
          stylus_buffer, stylus_cursor, stylus_frame, stylus_size, stylus_report,
          stylus_events, stylus_pc, stylus_wrapped>>

(***************************************************************************)
(* Bounds of the Reader model.                                             *)
(***************************************************************************)
\* longest byte buffer handed to the root Reader
MaxLen == 2
\* bytes are drawn from 0..MaxByte
MaxByte == 1
\* largest sizeof(T) used with subspan<T> and read<T>
MaxSizeofT == 2

Byte == 0..MaxByte
Buffers == UNION {[1..n -> Byte] : n \in 0..MaxLen}
\* the usize arguments the calls are tried with: in range, at and past the end
Args == 0..(MaxLen + 1)
ElemSizes == 1..MaxSizeofT

(***************************************************************************)
(* Reader.  A gsl::span is a pointer (an offset into the underlying        *)
(* buffer) and a length; a Reader is its span m_data and its cursor        *)
(* m_index.  Every member function is an operator from the Reader to an    *)
(* outcome: st is "ok", the ReaderError thrown, or "terminate" when a gsl  *)
(* contract fails (gsl's Expects calls std::terminate); r is the Reader    *)
(* afterwards; span and bytes are what the call returned or copied.        *)
(***************************************************************************)
NoSpan == [ptr |-> 0, len |-> 0, elem |-> 1]

Reader(data) == [m_data |-> data, m_index |-> 0]

index(r) == r.m_index

\* usize subtraction; every caller keeps m_index <= m_data.size()
size(r) == r.m_data.len - r.m_index

Outcome(st, r, span, bytes) == [st |-> st, r |-> r, span |-> span, bytes |-> bytes]

Throw(err, r) == Outcome(err, r, NoSpan, <<>>)

\* seek that refuses the end position
seek_strict(r, idx) ==
    IF idx >= r.m_data.len
    THEN Throw("InvalidSeek", r)
    ELSE Outcome("ok", [r EXCEPT !.m_index = idx], NoSpan, <<>>)

seek(r, idx) ==
    IF idx > r.m_data.len
    THEN Throw("InvalidSeek", r)
    ELSE Outcome("ok", [r EXCEPT !.m_index = idx], NoSpan, <<>>)

\* skip with the InvalidRead check left out
skip_unbounded(r, n) ==
    IF size(r) = 0
    THEN Throw("EndOfData", r)
    ELSE Outcome("ok", [r EXCEPT !.m_index = @ + n], NoSpan, <<>>)

\* skip with the EndOfData check left out
skip_noEndOfData(r, n) ==
    IF n > size(r)
    THEN Throw("InvalidRead", r)
    ELSE Outcome("ok", [r EXCEPT !.m_index = @ + n], NoSpan, <<>>)

skip(r, n) ==
    IF size(r) = 0
    THEN Throw("EndOfData", r)
    ELSE IF n > size(r)
         THEN Throw("InvalidRead", r)
         ELSE Outcome("ok", [r EXCEPT !.m_index = @ + n], NoSpan, <<>>)

\* gsl::span::subspan(offset, count): Expects(offset <= size && count <= size - offset)
span_subspan(s, offset, count) ==
    IF offset <= s.len /\ count <= s.len - offset
    THEN [ok |-> TRUE, ptr |-> s.ptr + offset, len |-> count]
    ELSE [ok |-> FALSE, ptr |-> 0, len |-> 0]

\* subspan<T>(n) with sizeof(T) = sizeofT: the checks count elements, the
\* byte span and the skip count bytes
subspan(r, n, sizeofT) ==
    IF size(r) = 0
    THEN Throw("EndOfData", r)
    ELSE IF n > size(r)
         THEN Throw("InvalidRead", r)
         ELSE LET bytes == n * sizeofT
                  sub == span_subspan(r.m_data, r.m_index, bytes)
                  sk == skip(r, bytes)
              IN  IF ~sub.ok
                  THEN Outcome("terminate", r, NoSpan, <<>>)
                  ELSE IF sk.st # "ok"
                       THEN sk
                       ELSE Outcome("ok", sk.r,
                                    [ptr |-> sub.ptr, len |-> n, elem |-> sizeofT], <<>>)

\* std::copy(src.begin(), src.end(), dest.begin()) out of the underlying buffer
copy(buffer, src) == [k \in 1..src.len |-> buffer[src.ptr + k]]

\* read(dest) with dest.size() = n
read(buffer, r, n) ==
    IF size(r) = 0
    THEN Throw("EndOfData", r)
    ELSE IF n > size(r)
         THEN Throw("InvalidRead", r)
         ELSE LET src == subspan(r, n, 1)
              IN  IF src.st # "ok"
                  THEN src
                  ELSE Outcome("ok", src.r, src.span, copy(buffer, src.span))

\* read<T>() with sizeof(T) = sizeofT
read_T(buffer, r, sizeofT) == read(buffer, r, sizeofT)

\* sub(n) whose child keeps the whole rest of the parent's data
sub_rest(r, n) ==
    LET o == subspan(r, n, 1)
    IN  IF o.st # "ok"
        THEN o
        ELSE [o EXCEPT !.span = [ptr |-> o.span.ptr, len |-> size(r), elem |-> 1]]

\* sub(n): Reader {subspan<u8>(n)}; the outcome's span is the child's m_data
sub(r, n) == subspan(r, n, 1)

(***************************************************************************)
(* The Reader state machine: readers[1] is the root Reader over m_buffer,  *)
(* readers[2] (when there) the child that the root's last successful sub   *)
(* returned; last is the record of the last call, pre the Reader it was    *)
(* made on as it was before.  A Reader that sub returns to the child's     *)
(* caller is a temporary and is not kept.                                  *)
(***************************************************************************)
NoCall == [op |-> "none", rd |-> 0, n |-> 0, elem |-> 1, st |-> "ok",
           pre |-> Reader([ptr |-> 0, len |-> 0]), span |-> NoSpan,
           bytes |-> <<>>, child |-> 0]

Call(op, k, n, elem, o, child) ==
    [op |-> op, rd |-> k, n |-> n, elem |-> elem, st |-> o.st, pre |-> readers[k],
     span |-> o.span, bytes |-> o.bytes, child |-> child]

\* the Stabilizer's variables while only the Reader runs
IdleStabilizer ==
    /\ m_config = <<>>
    /\ m_frames = <<>>
    /\ input = <<>>
    /\ submitted = <<>>
    /\ frame = <<>>
    /\ previous = <<>>
    /\ lastop = "idle"
    /\ calls = 0
    /\ repeated = FALSE
    /\ fresh = <<>>

\* the variables of maximas::find while another component runs
IdleMaximas ==
    /\ heatmap = <<>>
    /\ threshold = 0
    /\ maximas = <<>>
    /\ searched = FALSE

\* the variables of the stylus decoder while another component runs
IdleStylus ==
    /\ stylus_buffer = <<>>
    /\ stylus_cursor = 0
    /\ stylus_frame = <<>>
    /\ stylus_size = <<>>
    /\ stylus_report = <<>>
    /\ stylus_events = <<>>
    /\ stylus_pc = "idle"
    /\ stylus_wrapped = FALSE

InitReader ==
    /\ m_buffer \in Buffers
    /\ readers = <<Reader([ptr |-> 0, len |-> Len(m_buffer)])>>
    /\ last = NoCall
    /\ terminated = FALSE
    /\ IdleStabilizer
    /\ IdleMaximas
    /\ IdleStylus

\* the effect of a call on Reader k that makes no new Reader
Apply(op, k, n, elem, o) ==
    /\ readers' = [readers EXCEPT ![k] = o.r]
    /\ last' = Call(op, k, n, elem, o, 0)
    /\ terminated' = (o.st = "terminate")
    /\ UNCHANGED <<m_buffer, svars, mvars, yvars>>

Seek(k, n) ==
    /\ ~terminated
    /\ Apply("seek", k, n, 1, seek(readers[k], n))

Skip(k, n) ==
    /\ ~terminated
    /\ Apply("skip", k, n, 1, skip(readers[k], n))

Read(k, n) ==
    /\ ~terminated
    /\ Apply("read", k, n, 1, read(m_buffer, readers[k], n))

ReadT(k, sizeofT) ==
    /\ ~terminated
    /\ Apply("read_T", k, sizeofT, 1, read_T(m_buffer, readers[k], sizeofT))

Subspan(k, n, sizeofT) ==
    /\ ~terminated
    /\ Apply("subspan", k, n, sizeofT, subspan(readers[k], n, sizeofT))

\* sub(n) on the root: the Reader returned becomes the child
SubRoot(n) ==
    /\ ~terminated
    /\ LET o == sub(readers[1], n)
           child == Reader([ptr |-> o.span.ptr, len |-> o.span.len])
       IN  /\ readers' = IF o.st = "ok" THEN <<o.r, child>> ELSE [readers EXCEPT ![1] = o.r]
           /\ last' = Call("sub", 1, n, 1, o, IF o.st = "ok" THEN 2 ELSE 0)
           /\ terminated' = (o.st = "terminate")
           /\ UNCHANGED <<m_buffer, svars, mvars, yvars>>

\* sub(n) on the child: the Reader returned is dropped
SubChild(n) ==
    /\ ~terminated
    /\ Len(readers) = 2
    /\ Apply("sub", 2, n, 1, sub(readers[2], n))

NextReader ==
    \/ \E k \in 1..Len(readers), n \in Args : Seek(k, n)
    \/ \E k \in 1..Len(readers), n \in Args : Skip(k, n)
    \/ \E k \in 1..Len(readers), n \in Args : Read(k, n)
    \/ \E k \in 1..Len(readers), t \in ElemSizes : ReadT(k, t)
    \/ \E k \in 1..Len(readers), n \in Args, t \in ElemSizes : Subspan(k, n, t)
    \/ \E n \in Args : SubRoot(n)
    \/ \E n \in Args : SubChild(n)

SpecReader == InitReader /\ [][NextReader]_vars

\* the bytes a Reader's m_data views
View(r) == [j \in 1..r.m_data.len |-> m_buffer[r.m_data.ptr + j]]

(***************************************************************************)
(* Reader claims.                                                          *)
(***************************************************************************)
\* the Reader the last call was made on, as it is now
Now == readers[last.rd]

\* C1: in every reachable state, whatever calls succeeded or failed, every
\* Reader's cursor lies in 0..|B| and size() is |B| - index().
C1_CursorInBounds ==
    \A k \in 1..Len(readers) :
        /\ index(readers[k]) >= 0
        /\ index(readers[k]) <= Len(View(readers[k]))
        /\ size(readers[k]) = Len(View(readers[k])) - index(readers[k])

\* a call failed on a Reader whose cursor had been moved to the very end of
\* a non-empty buffer, while a child Reader exists as well
C1_Witness ==
    /\ Len(readers) = 2
    /\ last.st \in {"EndOfData", "InvalidRead", "InvalidSeek"}
    /\ last.rd = 1
    /\ index(readers[1]) = Len(View(readers[1]))
    /\ index(readers[1]) > 0

\* C2: skip(n) and read(dest, n) fail with EndOfData when no bytes remain
\* (for every n, 0 included), with InvalidRead when bytes remain and
\* n > size(), and otherwise succeed, advance the cursor by exactly n and
\* (read) copy the n bytes B[i .. i+n) from the old cursor i; a failing call
\* leaves the Reader as it was.
C2_SkipRead ==
    last.op \in {"skip", "read"} =>
        LET i == index(last.pre)
            n == last.n
            left == Len(View(last.pre)) - i
        IN  /\ left = 0 => last.st = "EndOfData" /\ Now = last.pre
            /\ (left > 0 /\ n > left) => last.st = "InvalidRead" /\ Now = last.pre
            /\ (left > 0 /\ n <= left) =>
                   /\ last.st = "ok"
                   /\ Now = [last.pre EXCEPT !.m_index = i + n]
                   /\ last.op = "read" => last.bytes = SubSeq(View(last.pre), i + 1, i + n)

\* a read of one byte from a cursor past the start copied a byte that differs
\* from the buffer's first byte
C2_Witness ==
    /\ last.op = "read"
    /\ last.st = "ok"
    /\ last.n = 1
    /\ index(last.pre) >= 1
    /\ last.bytes # <<View(last.pre)[1]>>

\* what a successful sub(n) on the root leaves: the parent advanced by n, the
\* child over exactly the bytes B[i .. i+n) with its cursor at 0
C3_SubResult ==
    (last.op = "sub" /\ last.st = "ok" /\ last.child = 2) =>
        LET i == index(last.pre)
        IN  /\ readers[1] = [last.pre EXCEPT !.m_index = i + last.n]
            /\ index(readers[2]) = 0
            /\ View(readers[2]) = SubSeq(View(last.pre), i + 1, i + last.n)
            /\ readers[2].m_data = [ptr |-> last.pre.m_data.ptr + i, len |-> last.n]

\* the child stays inside its n bytes: its cursor never passes them, and what
\* a successful call on it copies or returns lies between its old cursor and
\* its end
C3_ChildBounded ==
    Len(readers) = 2 =>
        /\ index(readers[2]) <= readers[2].m_data.len
        /\ (last.rd = 2 /\ last.st = "ok" /\ last.op \in {"read", "read_T", "subspan", "sub"}) =>
               /\ last.span.ptr = readers[2].m_data.ptr + index(last.pre)
               /\ last.span.ptr + last.span.len * last.span.elem
                      <= readers[2].m_data.ptr + readers[2].m_data.len
               /\ last.op \in {"read", "read_T"} =>
                      last.bytes = SubSeq(View(readers[2]), index(last.pre) + 1,
                                          index(last.pre) + last.n)

\* a call on one Reader leaves the other Reader as it was, cursor and data
\* (but for the root's sub, which makes the child)
C3_Independent ==
    \A k \in 1..Len(readers) :
        (k # last'.rd /\ ~(k = 2 /\ last'.op = "sub" /\ last'.child = 2)) =>
            /\ Len(readers') >= k
            /\ readers'[k] = readers[k]

\* C3: sub(n) on a Reader with cursor i returns a child over exactly
\* B[i .. i+n) with its own cursor at 0 and advances the parent by n;
\* afterwards calls on the child never change the parent, calls on the parent
\* never change the child, and the child never reads or seeks past its n bytes.
C3_Sub == [](C3_SubResult /\ C3_ChildBounded) /\ [][C3_Independent]_vars

\* a call on the child failed at the child's end although the parent's
\* buffer continues behind it, the parent's cursor resting where sub put it
C3_Witness ==
    /\ Len(readers) = 2
    /\ last.rd = 2
    /\ last.op \in {"read", "skip", "seek"}
    /\ last.st \in {"EndOfData", "InvalidRead", "InvalidSeek"}
    /\ readers[2].m_data.len >= 1
    /\ index(readers[2]) = readers[2].m_data.len
    /\ readers[2].m_data.ptr + readers[2].m_data.len < Len(m_buffer)
    /\ index(readers[1]) = readers[2].m_data.ptr + readers[2].m_data.len

\* C4: seek(n) sets the cursor to n for every n <= |B| (n = |B| and backward
\* seeks included, size() being |B| - n afterwards) and for n > |B| fails
\* with InvalidSeek and leaves the cursor unchanged.
C4_Seek ==
    last.op = "seek" =>
        LET len == Len(View(last.pre))
        IN  /\ last.n <= len =>
                   /\ last.st = "ok"
                   /\ Now = [last.pre EXCEPT !.m_index = last.n]
                   /\ size(Now) = len - last.n
            /\ last.n > len => last.st = "InvalidSeek" /\ Now = last.pre

\* a seek to the end position |B| > 0 of the child succeeded and left size() = 0
C4_Witness ==
    /\ last.op = "seek"
    /\ last.rd = 2
    /\ last.st = "ok"
    /\ last.n = Len(View(last.pre))
    /\ last.n > 0
    /\ size(Now) = 0

(***************************************************************************)
(* Bounds of the Stabilizer model.  Positions, sizes and angles are whole  *)
(* multiples of Grid; the thresholds lie between them.                     *)
(***************************************************************************)
\* largest configured temporal_window
MaxWindow == 2
\* contact indices are 0..MaxIndex
MaxIndex == 0
\* contacts in one submitted frame
MaxContacts == 1
\* mean.x is Grid * (0..MaxX), mean.y is Grid * (0..MaxY)
MaxX == 1
MaxY == 1
\* size.x and size.y are Grid * (1..MaxSize)
MaxSize == 2
\* orientation is Grid * (0..MaxOrientation)
MaxOrientation == 2
\* the count of stabilize calls since construction or reset saturates here
MaxCalls == 3
Grid == 2

\* std::optional: no value, or one value
nullopt == <<>>
Some(v) == <<v>>
has_value(o) == o # <<>>
value(o) == o[1]

Max(a, b) == IF a >= b THEN a ELSE b
Min(a, b) == IF a <= b THEN a ELSE b
abs(a) == IF a < 0 THEN -a ELSE a

\* One<T>() and M_PI in the model's angle unit, a sixth of the normalized range
One == 6
Pi == 19

(***************************************************************************)
(* Config<T>: the threshold pairs are (lo, hi) = (x, y) of a Vector2.  The *)
(* constructor takes every Config as it is: a pair with lo > hi and a      *)
(* window of 0 with temporal checking are among the configurations.        *)
(***************************************************************************)
Bands == {<<0, 1>>, <<1, 1>>, <<1, 3>>, <<3, 3>>, <<3, 1>>}
Thresholds == {nullopt} \cup {Some(b) : b \in Bands}

\* the configurations explored give every configured stage the same band
SameBand(c) ==
    \A t, u \in {c.size_threshold, c.position_threshold, c.orientation_threshold} :
        (has_value(t) /\ has_value(u)) => t = u

Configs ==
    {c \in [temporal_window : 0..MaxWindow,
            check_temporal_stability : BOOLEAN,
            size_threshold : Thresholds,
            position_threshold : Thresholds,
            orientation_threshold : Thresholds] : SameBand(c)}

(***************************************************************************)
(* Contact<T> and the frames submitted.  In one run the contacts differ    *)
(* from a base contact in one field group (mean, size or orientation); the *)
(* stable flag and the normalized flag they arrive with are the run's, and *)
(* normalized contacts are explored where the orientation varies.          *)
(***************************************************************************)
Means == {<<Grid * i, Grid * j>> : i \in 0..MaxX, j \in 0..MaxY}
Sizes == {<<Grid * i, Grid * j>> : i \in 1..MaxSize, j \in 1..MaxSize}
Orientations == {Grid * k : k \in 0..MaxOrientation}
Indices == {nullopt} \cup {Some(k) : k \in 0..MaxIndex}

Base == [mean |-> <<0, 0>>, size |-> <<2 * Grid, Grid>>, orientation |-> Grid]
PositionFamily == {[Base EXCEPT !.mean = m] : m \in Means}
SizeFamily == {[Base EXCEPT !.size = z] : z \in Sizes}
OrientationFamily == {[Base EXCEPT !.orientation = o] : o \in Orientations}

Sources ==
    {src \in [shapes : {PositionFamily, SizeFamily, OrientationFamily},
              stable : BOOLEAN, normalized : BOOLEAN] :
        src.normalized => src.shapes = OrientationFamily}

Contact(idx, shape, stable, normalized) ==
    [index |-> idx, mean |-> shape.mean, size |-> shape.size,
     orientation |-> shape.orientation, stable |-> stable, normalized |-> normalized]

Contacts(src) == {Contact(i, sh, src.stable, src.normalized) : i \in Indices, sh \in src.shapes}

Frames(src) == UNION {[1..n -> Contacts(src)] : n \in 0..MaxContacts}

\* Contact<T>::find_in_frame: the first contact of the frame with this index
find_in_frame(idx, fr) ==
    LET hits == {i \in 1..Len(fr) : has_value(fr[i].index) /\ value(fr[i].index) = idx}
    IN  IF hits = {}
        THEN nullopt
        ELSE Some(fr[CHOOSE i \in hits : \A j \in hits : i <= j])

(***************************************************************************)
(* Stabilizer<T>.                                                          *)
(***************************************************************************)
\* the deque size the constructor asks for, as upstream iptsd computes it
frames_size_upstream(config) == Max(config.temporal_window, 2) - 1

\* std::max(config.temporal_window, casts::to<usize>(2) - 1)
frames_size(config) == Max(config.temporal_window, 2 - 1)

\* m_frames as constructed: frames_size empty frames
new_frames(config) == [k \in 1..frames_size(config) |-> <<>>]

\* m_frames.back()
back(frames) == frames[Len(frames)]

\* check_temporal that looks at the most recent stored frame only
check_temporal_last(frames, contact) ==
    IF ~has_value(contact.index)
    THEN TRUE
    ELSE has_value(find_in_frame(value(contact.index), back(frames)))

check_temporal(frames, contact) ==
    IF ~has_value(contact.index)
    THEN TRUE
    ELSE \A k \in 1..Len(frames) :
             has_value(find_in_frame(value(contact.index), frames[k]))

stabilize_size(config, current, lastc) ==
    IF ~has_value(config.size_threshold)
    THEN current
    ELSE LET thresh == value(config.size_threshold)
             dx == abs(current.size[1] - lastc.size[1])
             dy == abs(current.size[2] - lastc.size[2])
             c1 == IF dx < thresh[1]
                   THEN [current EXCEPT !.size[1] = lastc.size[1]]
                   ELSE IF dx > thresh[2]
                        THEN [current EXCEPT !.stable = FALSE]
                        ELSE current
         IN  IF dy < thresh[1]
             THEN [c1 EXCEPT !.size[2] = lastc.size[2]]
             ELSE IF dy > thresh[2]
                  THEN [c1 EXCEPT !.stable = FALSE]
                  ELSE c1

\* std::hypot(dx, dy) < t and std::hypot(dx, dy) > t, on the squares
hypot_below(dx, dy, t) == t > 0 /\ dx * dx + dy * dy < t * t
hypot_above(dx, dy, t) == t < 0 \/ dx * dx + dy * dy > t * t

\* stabilize_position measuring the distance along the axes (|dx| + |dy|)
stabilize_position_manhattan(config, current, lastc) ==
    IF ~has_value(config.position_threshold)
    THEN current
    ELSE LET thresh == value(config.position_threshold)
             d == abs(current.mean[1] - lastc.mean[1]) + abs(current.mean[2] - lastc.mean[2])
         IN  IF d < thresh[1]
             THEN [current EXCEPT !.mean = lastc.mean]
             ELSE IF d > thresh[2]
                  THEN [current EXCEPT !.stable = FALSE]
                  ELSE current

\* stabilize_position that discards every change of position up to theta_hi
stabilize_position_wide(config, current, lastc) ==
    IF ~has_value(config.position_threshold)
    THEN current
    ELSE LET thresh == value(config.position_threshold)
             dx == current.mean[1] - lastc.mean[1]
             dy == current.mean[2] - lastc.mean[2]
         IN  IF hypot_below(dx, dy, thresh[2])
             THEN [current EXCEPT !.mean = lastc.mean]
             ELSE IF hypot_above(dx, dy, thresh[2])
                  THEN [current EXCEPT !.stable = FALSE]
                  ELSE current

stabilize_position(config, current, lastc) ==
    IF ~has_value(config.position_threshold)
    THEN current
    ELSE LET thresh == value(config.position_threshold)
             dx == current.mean[1] - lastc.mean[1]
             dy == current.mean[2] - lastc.mean[2]
         IN  IF hypot_below(dx, dy, thresh[1])
             THEN [current EXCEPT !.mean = lastc.mean]
             ELSE IF hypot_above(dx, dy, thresh[2])
                  THEN [current EXCEPT !.stable = FALSE]
                  ELSE current

\* size.maxCoeff() / size.minCoeff() < 1.1
aspect_below(sz) == 10 * Max(sz[1], sz[2]) < 11 * Min(sz[1], sz[2])

\* stabilize_orientation without the rule for contacts that are nearly round
stabilize_orientation_noaspect(config, current, lastc) ==
    IF ~has_value(config.orientation_threshold)
    THEN current
    ELSE LET thresh == value(config.orientation_threshold)
             max == IF current.normalized THEN One ELSE Pi
             d1 == abs(current.orientation - lastc.orientation)
             d2 == max - d1
             delta == Min(d1, d2)
         IN  IF delta < thresh[1]
             THEN [current EXCEPT !.orientation = lastc.orientation]
             ELSE IF delta > thresh[2]
                  THEN [current EXCEPT !.stable = FALSE]
                  ELSE current

\* stabilize_orientation that takes a small change for proof of stability
stabilize_orientation_restable(config, current, lastc) ==
    IF ~has_value(config.orientation_threshold)
    THEN current
    ELSE IF aspect_below(current.size)
         THEN [current EXCEPT !.orientation = 0]
         ELSE LET thresh == value(config.orientation_threshold)
                  max == IF current.normalized THEN One ELSE Pi
                  d1 == abs(current.orientation - lastc.orientation)
                  d2 == max - d1
                  delta == Min(d1, d2)
              IN  IF delta < thresh[1]
                  THEN [current EXCEPT !.orientation = lastc.orientation, !.stable = TRUE]
                  ELSE IF delta > thresh[2]
                       THEN [current EXCEPT !.stable = FALSE]
                       ELSE current

stabilize_orientation(config, current, lastc) ==
    IF ~has_value(config.orientation_threshold)
    THEN current
    ELSE IF aspect_below(current.size)
         THEN [current EXCEPT !.orientation = 0]
         ELSE LET thresh == value(config.orientation_threshold)
                  max == IF current.normalized THEN One ELSE Pi
                  d1 == abs(current.orientation - lastc.orientation)
                  d2 == max - d1
                  delta == Min(d1, d2)
              IN  IF delta < thresh[1]
                  THEN [current EXCEPT !.orientation = lastc.orientation]
                  ELSE IF delta > thresh[2]
                       THEN [current EXCEPT !.stable = FALSE]
                       ELSE current

\* stabilize_contact that rates a contact without index like any other
stabilize_contact_unindexed(config, frames, contact, fr) ==
    LET c0 == [contact EXCEPT !.stable =
                   IF config.check_temporal_stability /\ config.temporal_window >= 2
                   THEN check_temporal(frames, contact)
                   ELSE TRUE]
        wrapper == IF has_value(contact.index)
                   THEN find_in_frame(value(contact.index), fr)
                   ELSE nullopt
    IN  IF config.temporal_window < 2 \/ ~has_value(wrapper)
        THEN c0
        ELSE stabilize_orientation(config,
                 stabilize_position(config,
                     stabilize_size(config, c0, value(wrapper)), value(wrapper)),
                 value(wrapper))

\* stabilize_contact that smooths whatever the window is
stabilize_contact_anywindow(config, frames, contact, fr) ==
    IF ~has_value(contact.index)
    THEN contact
    ELSE LET c0 == [contact EXCEPT !.stable =
                        IF config.check_temporal_stability /\ config.temporal_window >= 2
                        THEN check_temporal(frames, contact)
                        ELSE TRUE]
             wrapper == find_in_frame(value(contact.index), fr)
         IN  IF ~has_value(wrapper)
             THEN c0
             ELSE stabilize_orientation(config,
                      stabilize_position(config,
                          stabilize_size(config, c0, value(wrapper)), value(wrapper)),
                      value(wrapper))

\* stabilize_contact(contact, frame), frame being the previous frame
stabilize_contact(config, frames, contact, fr) ==
    IF ~has_value(contact.index)
    THEN contact
    ELSE LET c0 == [contact EXCEPT !.stable =
                        IF config.check_temporal_stability /\ config.temporal_window >= 2
                        THEN check_temporal(frames, contact)
                        ELSE TRUE]
             wrapper == find_in_frame(value(contact.index), fr)
             lastc == value(wrapper)
             c1 == IF has_value(config.size_threshold)
                   THEN stabilize_size(config, c0, lastc)
                   ELSE c0
             c2 == IF has_value(config.position_threshold)
                   THEN stabilize_position(config, c1, lastc)
                   ELSE c1
             c3 == IF has_value(config.orientation_threshold)
                   THEN stabilize_orientation(config, c2, lastc)
                   ELSE c2
         IN  IF config.temporal_window < 2
             THEN c0
             ELSE IF ~has_value(wrapper)
                  THEN c0
                  ELSE c3

\* stabilize that stores the frame as it was submitted
stabilize_storeinput(config, frames, fr) ==
    LET out == [i \in 1..Len(fr) |-> stabilize_contact(config, frames, fr[i], back(frames))]
    IN  [frame |-> out, frames |-> Append(Tail(frames), fr)]

\* stabilize(frame): every contact against m_frames.back(), then the oldest
\* stored frame is dropped and a copy of the stabilized frame is appended
stabilize(config, frames, fr) ==
    LET out == [i \in 1..Len(fr) |-> stabilize_contact(config, frames, fr[i], back(frames))]
    IN  [frame |-> out, frames |-> Append(Tail(frames), out)]

\* reset() that clears the oldest stored frame only
reset_front(frames) == [k \in 1..Len(frames) |-> IF k = 1 THEN <<>> ELSE frames[k]]

\* reset(): every stored frame cleared
reset(frames) == [k \in 1..Len(frames) |-> <<>>]

(***************************************************************************)
(* The Stabilizer state machine.  submitted is the frame as it was passed  *)
(* to the last stabilize call, frame the same vector after the call and    *)
(* previous the m_frames.back() the call compared against; calls counts    *)
(* the stabilize calls since construction or reset (up to MaxCalls), and   *)
(* repeated tells that the last call was handed the same frame as the call *)
(* before it.  fresh is a second Stabilizer that is constructed anew from  *)
(* m_config whenever the first is reset and is handed the same frames      *)
(* (its m_frames and the frame its last call returned); fresh.cleared      *)
(* tells that some reset found contacts stored.                            *)
(***************************************************************************)
\* the Reader's variables while only the Stabilizer runs
IdleReader ==
    /\ m_buffer = <<>>
    /\ readers = <<Reader([ptr |-> 0, len |-> 0])>>
    /\ last = NoCall
    /\ terminated = FALSE

InitStabilizer ==
    /\ m_config \in Configs
    /\ m_frames = new_frames(m_config)
    /\ input \in Sources
    /\ submitted = <<>>
    /\ frame = <<>>
    /\ previous = <<>>
    /\ lastop = "new"
    /\ calls = 0
    /\ repeated = FALSE
    /\ fresh = [m_frames |-> new_frames(m_config), frame |-> <<>>, cleared |-> FALSE]
    /\ IdleReader
    /\ IdleMaximas
    /\ IdleStylus

Stabilize(fr) ==
    /\ lastop # "idle"
    /\ LET r == stabilize(m_config, m_frames, fr)
       IN  /\ frame' = r.frame
           /\ m_frames' = r.frames
    /\ submitted' = fr
    /\ previous' = back(m_frames)
    /\ lastop' = "stabilize"
    /\ calls' = Min(calls + 1, MaxCalls)
    /\ repeated' = (lastop = "stabilize" /\ fr = submitted)
    /\ LET r == stabilize(m_config, fresh.m_frames, fr)
       IN  fresh' = [fresh EXCEPT !.m_frames = r.frames, !.frame = r.frame]
    /\ UNCHANGED <<m_config, input, rvars, mvars, yvars>>

Reset ==
    /\ lastop # "idle"
    /\ m_frames' = reset(m_frames)
    /\ submitted' = <<>>
    /\ frame' = <<>>
    /\ previous' = <<>>
    /\ lastop' = "reset"
    /\ calls' = 0
    /\ repeated' = FALSE
    /\ fresh' = [m_frames |-> new_frames(m_config), frame |-> <<>>,
                 cleared |-> (fresh.cleared \/ m_frames # new_frames(m_config))]
    /\ UNCHANGED <<m_config, input, rvars, mvars, yvars>>

NextStabilizer ==
    \/ \E fr \in Frames(input) : Stabilize(fr)
    \/ Reset

SpecStabilizer == InitStabilizer /\ [][NextStabilizer]_vars

(***************************************************************************)
(* Stabilizer claims, checked under SpecStabilizer.                        *)
(***************************************************************************)
\* the contacts the last stabilize call was handed, by position in the frame
Submitted == 1..Len(submitted)

\* the stored contact of the previous frame that carries contact i's index
Stored(i) == find_in_frame(value(submitted[i].index), previous)

\* the squared Euclidean distance of two means
Dist2(a, b) == (a[1] - b[1]) * (a[1] - b[1]) + (a[2] - b[2]) * (a[2] - b[2])

\* contact i is indexed and the previous frame holds a contact of its index
Tracked(i) == has_value(submitted[i].index) /\ has_value(Stored(i))

\* the last call ran with a window of at least 2 and a position threshold
PositionStage ==
    /\ lastop = "stabilize"
    /\ m_config.temporal_window >= 2
    /\ has_value(m_config.position_threshold)

\* C5: with a window of at least 2 and a position threshold configured, an
\* indexed contact whose submitted mean lies closer than theta_lo (Euclidean
\* distance) to the mean of the contact of the same index in the most recent
\* stored frame leaves stabilize with exactly that stored mean.
C5_DeadBand ==
    PositionStage =>
        \A i \in Submitted :
            (/\ Tracked(i)
             /\ value(m_config.position_threshold)[1] > 0
             /\ Dist2(submitted[i].mean, value(Stored(i)).mean)
                    < value(m_config.position_threshold)[1] * value(m_config.position_threshold)[1])
            => frame[i].mean = value(Stored(i)).mean

\* C5 witness: a contact that moved, by less than theta_lo, was snapped back.
C5_Witness ==
    /\ PositionStage
    /\ \E i \in Submitted :
           /\ Tracked(i)
           /\ submitted[i].mean # value(Stored(i)).mean
           /\ Dist2(submitted[i].mean, value(Stored(i)).mean)
                  < value(m_config.position_threshold)[1] * value(m_config.position_threshold)[1]
           /\ frame[i].mean = value(Stored(i)).mean

\* contact i moved by more than theta_hi against the stored contact of its index
MovedFar(i) ==
    /\ Tracked(i)
    /\ Dist2(submitted[i].mean, value(Stored(i)).mean)
           > value(m_config.position_threshold)[2] * value(m_config.position_threshold)[2]

\* C6 as stated: whatever the window, a contact whose mean moved by more than
\* theta_hi against the contact of the same index in the previous frame comes
\* out of stabilize with stable = false and its submitted mean.
C6_Original ==
    (lastop = "stabilize" /\ has_value(m_config.position_threshold)) =>
        \A i \in Submitted :
            MovedFar(i) => (~frame[i].stable /\ frame[i].mean = submitted[i].mean)

\* C6 (amended): with a window of at least 2 and theta_lo <= theta_hi, a
\* contact whose mean moved by more than theta_hi against the contact of the
\* same index in the previous frame comes out of stabilize with stable =
\* false and its submitted mean; the orientation stage that runs afterwards
\* does not set the flag again.
C6_BreakBand ==
    (/\ PositionStage
     /\ value(m_config.position_threshold)[1] <= value(m_config.position_threshold)[2]) =>
        \A i \in Submitted :
            MovedFar(i) => (~frame[i].stable /\ frame[i].mean = submitted[i].mean)

\* C6 witness: a contact that arrived stable and passed the size stage moved
\* too far, and went through the orientation stage with stable = false.
C6_Witness ==
    /\ PositionStage
    /\ ~m_config.check_temporal_stability
    /\ has_value(m_config.orientation_threshold)
    /\ \E i \in Submitted :
           /\ MovedFar(i)
           /\ submitted[i].stable
           /\ ~aspect_below(frame[i].size)
           /\ ~frame[i].stable
           /\ frame[i].mean = submitted[i].mean

\* C7: window 2, temporal checking enabled, a fresh Stabilizer: of two
\* successive identical frames holding one contact of index 0, the second
\* frame's contact comes out with stable = true.
C7_SecondFrameStable ==
    (/\ m_config.temporal_window = 2
     /\ m_config.check_temporal_stability
     /\ lastop = "stabilize"
     /\ calls = 2
     /\ repeated
     /\ Len(submitted) = 1
     /\ submitted[1].index = Some(0))
    => frame[1].stable

\* the stored contact of the most recent frame, before the step, that carries
\* the index of contact i of the frame the step submits
StoredBefore(i) == find_in_frame(value(submitted'[i].index), back(m_frames))

\* the index of contact i is in every one of the N frames stored before the step
PresentInAll(i) ==
    \A k \in 1..m_config.temporal_window :
        \E j \in 1..Len(m_frames[k]) : m_frames[k][j].index = submitted'[i].index

\* an enabled stage measured, for contact i, a delta above its theta_hi; the
\* orientation stage measures none on a contact it takes for circular
StageBroke(i) ==
    LET lastc == value(StoredBefore(i))
        cur == submitted'[i]
        turn == abs(cur.orientation - lastc.orientation)
        full == IF cur.normalized THEN One ELSE Pi
    IN  \/ /\ has_value(m_config.size_threshold)
           /\ \E a \in 1..2 : abs(cur.size[a] - lastc.size[a]) > value(m_config.size_threshold)[2]
        \/ /\ has_value(m_config.position_threshold)
           /\ Dist2(cur.mean, lastc.mean)
                  > value(m_config.position_threshold)[2] * value(m_config.position_threshold)[2]
        \/ /\ has_value(m_config.orientation_threshold)
           /\ ~aspect_below(frame'[i].size)
           /\ Min(turn, full - turn) > value(m_config.orientation_threshold)[2]

\* every configured threshold pair has lo <= hi
Ordered ==
    \A t \in {m_config.size_threshold, m_config.position_threshold,
              m_config.orientation_threshold} :
        has_value(t) => value(t)[1] <= value(t)[2]

\* a stabilize step with temporal checking and a window N >= 2 reports an
\* indexed contact stable exactly when its index is in all N stored frames
\* and no enabled stage measured a delta above its theta_hi
C8_Iff ==
    (/\ lastop' = "stabilize"
     /\ m_config.check_temporal_stability
     /\ m_config.temporal_window >= 2)
    => \A i \in 1..Len(submitted') :
           has_value(submitted'[i].index) =>
               (frame'[i].stable <=> (PresentInAll(i) /\ ~StageBroke(i)))

C8_Step == Ordered => C8_Iff

\* C8 as stated: with temporal checking enabled and a window N >= 2,
\* whatever the thresholds, stabilize reports an indexed contact stable
\* exactly when its index is in every one of the N stored frames and no
\* enabled stage measured a delta above its theta_hi.
C8_Original == [][C8_Iff]_vars

\* C8 (amended): with temporal checking enabled, a window N >= 2 and
\* theta_lo <= theta_hi in every configured threshold pair, stabilize
\* reports an indexed contact stable exactly when its index is in every one
\* of the N stored frames and no enabled stage measured a delta above its
\* theta_hi.
C8_StableIff == [][C8_Step]_vars

\* C8 witness: window 2 with temporal checking and a threshold configured;
\* the third call's contact, whose index both stored frames hold, differs
\* from the stored contact by a delta no stage refuses and comes out stable.
C8_Witness ==
    /\ lastop = "stabilize"
    /\ Ordered
    /\ m_config.check_temporal_stability
    /\ m_config.temporal_window = 2
    /\ calls = 3
    /\ \/ has_value(m_config.size_threshold)
       \/ has_value(m_config.position_threshold)
       \/ has_value(m_config.orientation_threshold)
    /\ \E i \in Submitted :
           /\ Tracked(i)
           /\ frame[i].stable
           /\ \/ submitted[i].mean # value(Stored(i)).mean
              \/ submitted[i].size # value(Stored(i)).size
              \/ submitted[i].orientation # value(Stored(i)).orientation

\* C9 as stated: the deque holds exactly temporal_window frames.
C9_Original == Len(m_frames) = m_config.temporal_window

\* C9 (amended): after construction and after any sequence of stabilize and
\* reset calls the deque holds max(N, 1) frames: N for a window N >= 1 and
\* one frame for a window of 0.
C9_DequeLength == Len(m_frames) = Max(m_config.temporal_window, 1)

\* C9 witness: a window of 0, and the one stored frame is the frame last
\* stabilized.
C9_Witness ==
    /\ m_config.temporal_window = 0
    /\ lastop = "stabilize"
    /\ frame # <<>>
    /\ m_frames = <<frame>>

\* C10: with a window below 2, stabilize sets stable on every indexed contact
\* and leaves every contact's mean, size and orientation as submitted.
C10_NoSmoothing ==
    (lastop = "stabilize" /\ m_config.temporal_window < 2) =>
        \A i \in Submitted :
            /\ has_value(submitted[i].index) => frame[i].stable
            /\ frame[i].mean = submitted[i].mean
            /\ frame[i].size = submitted[i].size
            /\ frame[i].orientation = submitted[i].orientation

\* C10 witness: thresholds configured, a contact that arrived unstable and
\* differs from the stored contact of its index is set stable and kept as is.
C10_Witness ==
    /\ lastop = "stabilize"
    /\ m_config.temporal_window < 2
    /\ has_value(m_config.position_threshold)
    /\ has_value(m_config.size_threshold)
    /\ has_value(m_config.orientation_threshold)
    /\ \E i \in Submitted :
           /\ Tracked(i)
           /\ ~submitted[i].stable
           /\ frame[i].stable
           /\ [submitted[i] EXCEPT !.stable = TRUE] = frame[i]
           /\ \/ submitted[i].mean # value(Stored(i)).mean
              \/ submitted[i].size # value(Stored(i)).size
              \/ submitted[i].orientation # value(Stored(i)).orientation

\* C11: a Stabilizer that was reset and a Stabilizer newly constructed with
\* the same configuration return the same contacts for every sequence of
\* frames submitted afterwards, and store the same history: reset leaves the
\* deque as the constructor makes it, empty frames of unchanged number.
C11_ResetIsFresh ==
    /\ frame = fresh.frame
    /\ m_frames = fresh.m_frames
    /\ lastop = "reset" => (Len(m_frames) = Len(new_frames(m_config))
                             /\ \A k \in 1..Len(m_frames) : m_frames[k] = <<>>)

\* C11 witness: a reset cleared stored contacts, and two calls later the
\* Stabilizer returned a contact changed against the history of those calls.
C11_Witness ==
    /\ fresh.cleared
    /\ lastop = "stabilize"
    /\ calls = 2
    /\ frame # submitted
    /\ frame = fresh.frame

\* C16 as stated: with an orientation threshold configured, every contact
\* whose aspect ratio is below 1.1 leaves stabilize with orientation 0, be it
\* without index, without a stored contact of its index, or the window < 2.
C16_Original ==
    (lastop = "stabilize" /\ has_value(m_config.orientation_threshold)) =>
        \A i \in Submitted :
            aspect_below(submitted[i].size) => frame[i].orientation = 0

\* C16 (amended): with an orientation threshold configured and a window of
\* at least 2, every indexed contact that has a contact of its index in the
\* previous frame and whose size, as it leaves the size stage, has an aspect
\* ratio below 1.1 leaves stabilize with orientation 0, whatever its change
\* of orientation.
C16_RoundContact ==
    (/\ lastop = "stabilize"
     /\ m_config.temporal_window >= 2
     /\ has_value(m_config.orientation_threshold))
    => \A i \in Submitted :
           (Tracked(i) /\ aspect_below(frame[i].size)) => frame[i].orientation = 0

\* C16 witness: a round contact submitted with an orientation other than 0
\* and other than the stored one comes out with orientation 0.
C16_Witness ==
    /\ lastop = "stabilize"
    /\ m_config.temporal_window >= 2
    /\ has_value(m_config.orientation_threshold)
    /\ \E i \in Submitted :
           /\ Tracked(i)
           /\ aspect_below(frame[i].size)
           /\ submitted[i].orientation # 0
           /\ value(Stored(i)).orientation # 0
           /\ frame[i].orientation = 0

\* the stabilize step stores the returned frame as the newest, drops the
\* oldest and shifts the others; each returned contact is a function of the
\* history before the step and of the contact submitted
C18_Step ==
    lastop' = "stabilize" =>
        /\ Len(m_frames') = Len(m_frames)
        /\ m_frames'[Len(m_frames')] = frame'
        /\ \A k \in 1..(Len(m_frames) - 1) : m_frames'[k] = m_frames[k + 1]
        /\ Len(frame') = Len(submitted')
        /\ \A i \in 1..Len(submitted') :
               frame'[i] = stabilize(m_config, m_frames, <<submitted'[i]>>).frame[1]

\* after at least two calls the two newest stored frames are the frames the
\* last two calls returned, in call order
C18_LastTwo ==
    (lastop = "stabilize" /\ calls >= 2 /\ Len(m_frames) >= 2) =>
        /\ m_frames[Len(m_frames)] = frame
        /\ m_frames[Len(m_frames) - 1] = previous

\* C18 as stated: the rotation, and after k >= N calls the deque holds
\* exactly the frames returned by the last N calls.
C18_Original ==
    (lastop = "stabilize" /\ calls >= m_config.temporal_window) =>
        /\ Len(m_frames) = m_config.temporal_window
        /\ m_config.temporal_window >= 1 => m_frames[Len(m_frames)] = frame
        /\ (calls >= 2 /\ m_config.temporal_window >= 2) =>
               m_frames[Len(m_frames) - 1] = previous

\* C18 (amended): every stabilize call rates each contact against the
\* history stored before the call only, then stores the returned frame as
\* the newest, drops the oldest and keeps the others in order; after
\* k >= max(N, 1) calls the deque holds exactly the frames returned by the
\* last max(N, 1) calls, in call order.
C18_Rotation ==
    /\ [][C18_Step]_vars
    /\ [](C18_LastTwo /\ Len(m_frames) = Max(m_config.temporal_window, 1))

\* C18 witness: window 2, three calls: the stored frames are the frames of
\* the last two calls, they differ, and the newest differs from the frame
\* submitted.
C18_Witness ==
    /\ lastop = "stabilize"
    /\ m_config.temporal_window = 2
    /\ calls = 3
    /\ m_frames = <<previous, frame>>
    /\ previous # frame
    /\ previous # <<>>
    /\ frame # submitted

\* C20: a contact without index leaves stabilize with every field as
\* submitted, the stable flag included, and is stored in the newest history
\* frame all the same.
C20_Unindexed ==
    lastop = "stabilize" =>
        \A i \in Submitted :
            ~has_value(submitted[i].index) =>
                /\ frame[i] = submitted[i]
                /\ Len(back(m_frames)) >= i
                /\ back(m_frames)[i] = submitted[i]

\* C20 witness: window 2 with temporal checking and all thresholds, a
\* non-empty previous frame, and a contact without index that arrived
\* unstable is returned and stored as it came.
C20_Witness ==
    /\ lastop = "stabilize"
    /\ m_config.temporal_window = 2
    /\ m_config.check_temporal_stability
    /\ has_value(m_config.size_threshold)
    /\ has_value(m_config.position_threshold)
    /\ has_value(m_config.orientation_threshold)
    /\ previous # <<>>
    /\ \E i \in Submitted :
           /\ ~has_value(submitted[i].index)
           /\ ~submitted[i].stable
           /\ frame[i] = submitted[i]
           /\ back(m_frames)[i] = submitted[i]

(***************************************************************************)
(* maximas::find (src/src/contacts/detection/algorithms/maximas.hpp).      *)
(* A heatmap is an Eigen matrix, here heatmap[y][x] with y in 0..rows()-1  *)
(* and x in 0..cols()-1; maximas is the caller's output vector, which may  *)
(* hold the points of an earlier call.                                     *)
(***************************************************************************)
\* heatmaps have 1..MaxRows rows and 1..MaxCols columns
MaxRows == 4
MaxCols == 2
\* cell values are 0..MaxValue, thresholds 0..MaxThreshold
MaxValue == 2
MaxThreshold == 1

Values == 0..MaxValue
Heatmaps ==
    UNION {[0..(r - 1) -> [0..(c - 1) -> Values]] : r \in 1..MaxRows, c \in 1..MaxCols}

\* data.rows() and data.cols()
Rows(d) == Cardinality(DOMAIN d)
Cols(d) == Cardinality(DOMAIN d[0])

Point(x, y) == [x |-> x, y |-> y]

\* what the output vector may hold when find is called
Leftovers == {<<>>, <<Point(0, 0)>>}

\* max &= cond, when the neighbour exists
check(exists, cond) == exists => cond

\* check_point(data, maximas, y, x, cols, rows): the vector afterwards
check_point(d, out, y, x, cols, rows) ==
    LET v == d[y][x]
        can_up == y > 0
        can_down == y < rows
        can_left == x > 0
        can_right == x < cols
        ismax ==
            /\ check(can_left, d[y][x - 1] < v)
            /\ check(can_right, d[y][x + 1] <= v)
            /\ check(can_up, d[y - 1][x] < v)
            /\ check(can_up /\ can_left, d[y - 1][x - 1] < v)
            /\ check(can_up /\ can_right, d[y - 1][x + 1] <= v)
            /\ check(can_down, d[y + 1][x] <= v)
            /\ check(can_down /\ can_left, d[y + 1][x - 1] < v)
            /\ check(can_down /\ can_right, d[y + 1][x + 1] <= v)
    IN  IF ismax THEN Append(out, Point(x, y)) ELSE out

\* if (data(y, x) > threshold) check_point(...)
visit(d, t, out, y, x, cols, rows) ==
    IF d[y][x] > t THEN check_point(d, out, y, x, cols, rows) ELSE out

\* the while loop of find, from the loop variables to the final vector
RECURSIVE find_loop(_, _, _, _, _, _, _, _, _)
find_loop(d, t, out, y_up, y_down, x_left, x_right, cols, rows) ==
    IF ~(y_up < y_down)
    THEN out
    ELSE IF x_left >= x_right
         THEN find_loop(d, t, out, y_up + 1, y_down - 1, 0, cols, cols, rows)
         ELSE LET o1 == visit(d, t, out, y_up, x_left, cols, rows)
                  o2 == visit(d, t, o1, y_up, x_right, cols, rows)
                  o3 == visit(d, t, o2, y_down, x_left, cols, rows)
                  o4 == visit(d, t, o3, y_down, x_right, cols, rows)
              IN  find_loop(d, t, o4, y_up, y_down, x_left + 1, x_right - 1, cols, rows)

\* find(data, threshold, maximas): cols and rows are the last indices, the
\* vector is cleared, then the loop runs
find(d, t, out) ==
    LET cols == Cols(d) - 1
        rows == Rows(d) - 1
    IN  find_loop(d, t, <<>>, 0, rows, 0, cols, cols, rows)

InitMaximas ==
    /\ heatmap \in Heatmaps
    /\ threshold \in 0..MaxThreshold
    /\ maximas \in Leftovers
    /\ searched = FALSE
    /\ IdleReader
    /\ IdleStabilizer
    /\ IdleStylus

Find ==
    /\ heatmap # <<>>
    /\ ~searched
    /\ maximas' = find(heatmap, threshold, maximas)
    /\ searched' = TRUE
    /\ UNCHANGED <<heatmap, threshold, rvars, svars, yvars>>

NextMaximas == Find

SpecMaximas == InitMaximas /\ [][NextMaximas]_vars

(***************************************************************************)
(* Claims on maximas::find, checked under SpecMaximas.                     *)
(***************************************************************************)
\* the cells of the heatmap, as points
Cells == {Point(x, y) : x \in 0..(Cols(heatmap) - 1), y \in 0..(Rows(heatmap) - 1)}

At(p) == heatmap[p.y][p.x]

\* the cell at offset (dx, dy) of p exists
Has(p, dx, dy) == Point(p.x + dx, p.y + dy) \in Cells

Nb(p, dx, dy) == heatmap[p.y + dy][p.x + dx]

\* the existing neighbours of p
Neighbours(p) ==
    {q \in Cells : q # p /\ abs(q.x - p.x) <= 1 /\ abs(q.y - p.y) <= 1}

\* how often find reported p
Reports(p) == Cardinality({i \in 1..Len(maximas) : maximas[i] = p})

\* C12: every reported cell is above the threshold, strictly greater than
\* its upper-left, upper, upper-right and left neighbours and at least as
\* large as its right, lower-left, lower and lower-right neighbours, as far
\* as these exist.
C12_Kernel ==
    searched =>
        \A i \in 1..Len(maximas) :
            LET p == maximas[i]
            IN  /\ p \in Cells
                /\ At(p) > threshold
                /\ Has(p, -1, -1) => Nb(p, -1, -1) < At(p)
                /\ Has(p, 0, -1) => Nb(p, 0, -1) < At(p)
                /\ Has(p, 1, -1) => Nb(p, 1, -1) < At(p)
                /\ Has(p, -1, 0) => Nb(p, -1, 0) < At(p)
                /\ Has(p, 1, 0) => Nb(p, 1, 0) <= At(p)
                /\ Has(p, -1, 1) => Nb(p, -1, 1) <= At(p)
                /\ Has(p, 0, 1) => Nb(p, 0, 1) <= At(p)
                /\ Has(p, 1, 1) => Nb(p, 1, 1) <= At(p)

\* the cells reached from the set S over neighbours of equal value
RECURSIVE Grow(_)
Grow(S) ==
    LET T == S \cup {q \in Cells : \E p \in S : q \in Neighbours(p) /\ At(q) = At(p)}
    IN  IF T = S THEN S ELSE Grow(T)

\* the 8-connected plateau of p
Plateau(p) == Grow({p})

\* the plateau of p lies above the threshold and every cell that borders it
\* is strictly lower
Raised(p) ==
    /\ At(p) > threshold
    /\ \A q \in Plateau(p) : \A n \in Neighbours(q) : n \in Plateau(p) \/ At(n) < At(p)

\* C13: every 8-connected plateau above the threshold whose bordering cells
\* are all strictly lower holds exactly one reported maximum.
C13_Plateau ==
    searched =>
        \A p \in Cells :
            Raised(p) =>
                Cardinality({i \in 1..Len(maximas) : maximas[i] \in Plateau(p)}) = 1

\* C14: whatever the numbers of rows and columns, every cell above the
\* threshold that is strictly greater than all its existing neighbours is
\* reported exactly once, and every reported point was found in this call.
C14_AllCells ==
    searched =>
        /\ \A p \in Cells :
               (At(p) > threshold /\ \A n \in Neighbours(p) : At(n) < At(p))
                   => Reports(p) = 1
        /\ \A i \in 1..Len(maximas) : maximas[i] \in Cells /\ At(maximas[i]) > threshold

(***************************************************************************)
(* The stylus decoder (src/stylus.go).  stylus_buffer is the data of the   *)
(* bytes.Reader, stylus_cursor its read position; stylus_frame is          *)
(* frame.Size and stylus_size the running counter of                       *)
(* IptsStylusHandleInput, both uint32 and kept as two 16-bit halves         *)
(* <<high, low>>; stylus_report is the header read by the last             *)
(* iteration, with the offset it was read at and the number of samples the *)
(* iteration emitted; stylus_events are the samples handed to the sink,    *)
(* one per IptsStylusHandleData call; stylus_wrapped tells that the        *)
(* addition of the last iteration overflowed the counter.                  *)
(***************************************************************************)
\* reports in a frame
MaxReports == 2
\* elements a stylus report of the frames explored declares
MaxElements == 1

\* the ranges of uint8 and uint16
Uint8 == 256
Uint16 == 65536

\* a uint32 as <<high, low>> halves of 16 bits: of a small number, back to a
\* number (high half below 2^15), comparison, and the sum with
\* a small number as the code computes it (modulo 2^32)
Wide(n) == <<n \div Uint16, n % Uint16>>
Narrow(w) == w[1] * Uint16 + w[2]
WideLess(a, b) == a[1] < b[1] \/ (a[1] = b[1] /\ a[2] < b[2])
WideCarry(w, n) == w[1] + ((w[2] + n) \div Uint16) >= Uint16
WideAdd(w, n) == <<(w[1] + ((w[2] + n) \div Uint16)) % Uint16, (w[2] + n) % Uint16>>

IPTS_REPORT_TYPE_HEATMAP_TIMESTAMP == 1024
IPTS_REPORT_TYPE_STYLUS_NO_TILT == 1040
IPTS_REPORT_TYPE_STYLUS_TILT == 1104
IPTS_REPORT_TYPE_STYLUS_TILT_SERIAL == 1120

\* binary sizes of IptsReport, IptsStylusReportTilt, IptsStylusReportSerial,
\* IptsStylusReportData and IptsStylusReportDataNoTilt
SizeofReport == 4
SizeofReportTilt == 4
SizeofReportSerial == 8
SizeofData == 16
SizeofDataNoTilt == 12

\* The data of the reader is either the sequence bytes (repeat = 0), or
\* repeat blocks that each hold the header of a report of type 0 and size
\* 0xFFFF and 0xFFFF zero bytes.  Of a buffer of blocks, passed blocks lie
\* wholly before the read position and the cursor counts from the end of
\* these.  reports are the reports the bytes were encoded from.
BlockLen == SizeofReport + (Uint16 - 1)
Length(b) == IF b.repeat = 0 THEN Len(b.bytes) ELSE (b.repeat - b.passed) * BlockLen
ByteAt(b, o) ==
    IF b.repeat = 0
    THEN b.bytes[o + 1]
    ELSE IF (o % BlockLen) \in {2, 3} THEN Uint8 - 1 ELSE 0

\* little-endian fields
U16At(b, o) == ByteAt(b, o) + Uint8 * ByteAt(b, o + 1)
U16(v) == <<v % Uint8, v \div Uint8>>
U32(v) == U16(v % Uint16) \o U16(v \div Uint16)

\* IptsUtilsRead of an object of n bytes at cursor c: whether the bytes are
\* there, and the cursor afterwards
Fits(b, c, n) ==
    IF b.repeat = 0
    THEN c + n <= Len(b.bytes)
    ELSE \/ (c + n) \div BlockLen < b.repeat - b.passed
         \/ (c + n) \div BlockLen = b.repeat - b.passed /\ (c + n) % BlockLen = 0
After(b, c, n) == IF Fits(b, c, n) THEN c + n ELSE Max(c, Length(b))

\* IptsUtilsSkip
IptsUtilsSkip(c, n) == c + n

\* IptsUtilsRead(buffer, &report) for the object types of the decoder; an
\* object that cannot be read keeps the zero value it was declared with
ReadReport(b, c) ==
    IF Fits(b, c, SizeofReport)
    THEN [Type |-> U16At(b, c), Size |-> U16At(b, c + 2)]
    ELSE [Type |-> 0, Size |-> 0]

ReadElements(b, c, n) == IF Fits(b, c, n) THEN ByteAt(b, c) ELSE 0

ReadData(b, c) ==
    IF Fits(b, c, SizeofData)
    THEN [Timestamp |-> U16At(b, c), Mode |-> U16At(b, c + 2), X |-> U16At(b, c + 4),
          Y |-> U16At(b, c + 6), Pressure |-> U16At(b, c + 8),
          Altitude |-> U16At(b, c + 10), Azimuth |-> U16At(b, c + 12)]
    ELSE [Timestamp |-> 0, Mode |-> 0, X |-> 0, Y |-> 0, Pressure |-> 0,
          Altitude |-> 0, Azimuth |-> 0]

ReadDataNoTilt(b, c) ==
    IF Fits(b, c, SizeofDataNoTilt)
    THEN [Mode |-> ByteAt(b, c + 4), X |-> U16At(b, c + 5), Y |-> U16At(b, c + 7),
          Pressure |-> U16At(b, c + 9)]
    ELSE [Mode |-> 0, X |-> 0, Y |-> 0, Pressure |-> 0]

\* (mode & (1 << k)) >> k
Bit(mode, k) == (mode \div (2 ^ k)) % 2

\* int32(tx), int32(ty) for an altitude above 0, for the angles explored
Tilt(altitude, azimuth) ==
    CASE altitude = 1 /\ azimuth = 0 -> <<5729, 0>>

\* IptsStylusHandleData: the sample handed to the sink
IptsStylusHandleData(data) ==
    LET prox == Bit(data.Mode, 0)
        touch == Bit(data.Mode, 1)
        button == Bit(data.Mode, 2)
        rubber == Bit(data.Mode, 3)
        t == IF data.Altitude > 0 THEN Tilt(data.Altitude, data.Azimuth) ELSE <<0, 0>>
    IN  [touch |-> touch, btn_pen |-> prox * (1 - rubber), btn_rubber |-> prox * rubber,
         button |-> button, x |-> data.X, y |-> data.Y, pressure |-> data.Pressure,
         timestamp |-> data.Timestamp, tilt_x |-> t[1], tilt_y |-> t[2]]

\* the element loop of IptsStylusHandleReportSerial and ...Tilt
RECURSIVE HandleElements(_, _, _, _)
HandleElements(b, c, n, events) ==
    IF n = 0
    THEN [cursor |-> c, events |-> events]
    ELSE HandleElements(b, After(b, c, SizeofData), n - 1,
                        Append(events, IptsStylusHandleData(ReadData(b, c))))

\* data.Pressure * 4, in uint16
NoTiltPressure(p) == (p * 4) % Uint16

\* the element loop of IptsStylusHandleReportNoTilt
RECURSIVE HandleElementsNoTilt(_, _, _, _)
HandleElementsNoTilt(b, c, n, events) ==
    IF n = 0
    THEN [cursor |-> c, events |-> events]
    ELSE LET data == ReadDataNoTilt(b, c)
         IN  HandleElementsNoTilt(b, After(b, c, SizeofDataNoTilt), n - 1,
                 Append(events,
                        IptsStylusHandleData(
                            [Mode |-> data.Mode, X |-> data.X, Y |-> data.Y,
                             Pressure |-> NoTiltPressure(data.Pressure),
                             Altitude |-> 0, Azimuth |-> 0, Timestamp |-> 0])))

IptsStylusHandleReportSerial(b, c, events) ==
    HandleElements(b, After(b, c, SizeofReportSerial),
                   ReadElements(b, c, SizeofReportSerial), events)

IptsStylusHandleReportTilt(b, c, events) ==
    HandleElements(b, After(b, c, SizeofReportTilt),
                   ReadElements(b, c, SizeofReportTilt), events)

IptsStylusHandleReportNoTilt(b, c, events) ==
    HandleElementsNoTilt(b, After(b, c, SizeofReportSerial),
                         ReadElements(b, c, SizeofReportSerial), events)

\* the switch of IptsStylusHandleInput that leaves an unknown report's
\* payload where it is
Dispatch_noskip(report, b, c, events) ==
    CASE report.Type = IPTS_REPORT_TYPE_STYLUS_NO_TILT ->
             IptsStylusHandleReportNoTilt(b, c, events)
      [] report.Type = IPTS_REPORT_TYPE_STYLUS_TILT ->
             IptsStylusHandleReportTilt(b, c, events)
      [] report.Type = IPTS_REPORT_TYPE_STYLUS_TILT_SERIAL ->
             IptsStylusHandleReportSerial(b, c, events)
      [] OTHER -> [cursor |-> c, events |-> events]

\* the switch of IptsStylusHandleInput: cursor and samples afterwards
Dispatch(report, b, c, events) ==
    CASE report.Type = IPTS_REPORT_TYPE_STYLUS_NO_TILT ->
             IptsStylusHandleReportNoTilt(b, c, events)
      [] report.Type = IPTS_REPORT_TYPE_STYLUS_TILT ->
             IptsStylusHandleReportTilt(b, c, events)
      [] report.Type = IPTS_REPORT_TYPE_STYLUS_TILT_SERIAL ->
             IptsStylusHandleReportSerial(b, c, events)
      [] OTHER -> [cursor |-> IptsUtilsSkip(c, report.Size), events |-> events]

(***************************************************************************)
(* The frames explored: up to MaxReports reports, each an unknown report   *)
(* with up to MaxUnknownSize payload bytes or a stylus report of up to     *)
(* MaxElements samples; a no-tilt report may declare SizeofReport bytes    *)
(* more than its samples take.  One more buffer holds so many long         *)
(* unknown reports that their sizes add up to more than a uint32 holds.    *)
(***************************************************************************)
MaxUnknownSize == 2

\* wire pressures of the no-tilt samples
Pressures == {250, 16384}

RECURSIVE Repeat(_, _)
Repeat(bytes, n) == IF n = 0 THEN <<>> ELSE bytes \o Repeat(bytes, n - 1)

\* an IptsStylusReportDataNoTilt and an IptsStylusReportData on the wire
DataNoTiltBytes(p) == <<0, 0, 0, 0, 3>> \o U16(5) \o U16(6) \o U16(p) \o <<0>>
DataBytes(altitude) ==
    U16(7) \o U16(3) \o U16(5) \o U16(6) \o U16(250) \o U16(altitude) \o U16(0) \o <<0, 0>>

UnknownReports ==
    {[Type |-> IPTS_REPORT_TYPE_HEATMAP_TIMESTAMP, Size |-> n, payload |-> Repeat(<<1>>, n)] :
        n \in 0..MaxUnknownSize}

NoTiltReports ==
    {[Type |-> IPTS_REPORT_TYPE_STYLUS_NO_TILT,
      Size |-> SizeofReportSerial + n * SizeofDataNoTilt + pad,
      payload |-> <<n, 0, 0, 0>> \o U32(0) \o Repeat(DataNoTiltBytes(p), n)
                      \o Repeat(<<0>>, pad)] :
        n \in 0..MaxElements, p \in Pressures, pad \in {0, SizeofReport}}

SerialReports ==
    {[Type |-> IPTS_REPORT_TYPE_STYLUS_TILT_SERIAL,
      Size |-> SizeofReportSerial + n * SizeofData,
      payload |-> <<n, 0, 0, 0>> \o U32(0) \o Repeat(DataBytes(a), n)] :
        n \in 1..MaxElements, a \in {0, 1}}

TiltReports ==
    {[Type |-> IPTS_REPORT_TYPE_STYLUS_TILT,
      Size |-> SizeofReportTilt + n * SizeofData,
      payload |-> <<n, 0, 0, 0>> \o Repeat(DataBytes(0), n)] :
        n \in 1..MaxElements}

StylusReports == UnknownReports \cup NoTiltReports \cup SerialReports \cup TiltReports

StylusFrames == UNION {[1..k -> StylusReports] : k \in 1..MaxReports}

\* a report and a frame on the wire
Encode(r) == U16(r.Type) \o U16(r.Size) \o r.payload

RECURSIVE Bytes(_)
Bytes(f) == IF f = <<>> THEN <<>> ELSE Encode(Head(f)) \o Bytes(Tail(f))

\* The long input: frame.Size = 2^32 - 8 and a buffer of LongBlocks blocks.
\* The counter grows by BlockLen per block: it is 2^32 - 9, still below
\* frame.Size, after Uint16 - 3 blocks, 65530 after the next, and
\* 2^32 - 18 after the last block;
\* from there the loop finds no header in the buffer any more and the
\* counter grows by SizeofReport until it is no longer below frame.Size.
LongFrame == <<Uint16 - 1, Uint16 - 8>>
LongBlocks == 2 * Uint16 - 6

StylusBuffers ==
    {[bytes |-> Bytes(f), repeat |-> 0, passed |-> 0, reports |-> f] : f \in StylusFrames}
        \cup {[bytes |-> <<>>, repeat |-> LongBlocks, passed |-> 0, reports |-> <<>>]}

\* no header read yet
NoReport == [Type |-> 0, Size |-> 0, at |-> 0, emitted |-> 0, read |-> FALSE, fit |-> FALSE]

InitStylus ==
    /\ stylus_buffer \in StylusBuffers
    /\ stylus_frame \in (IF stylus_buffer.repeat = 0
                         THEN {Wide(0), Wide(Length(stylus_buffer))}
                         ELSE {LongFrame})
    /\ stylus_cursor = 0
    /\ stylus_size = Wide(0)
    /\ stylus_report = NoReport
    /\ stylus_events = <<>>
    /\ stylus_pc = "loop"
    /\ stylus_wrapped = FALSE
    /\ IdleReader
    /\ IdleStabilizer
    /\ IdleMaximas

\* one iteration of the loop of IptsStylusHandleInput, entered when
\* size < frame.Size; fit tells that the header was there to be read
Report ==
    /\ stylus_pc = "loop"
    /\ WideLess(stylus_size, stylus_frame)
    /\ LET report == ReadReport(stylus_buffer, stylus_cursor)
           r == Dispatch(report, stylus_buffer,
                         After(stylus_buffer, stylus_cursor, SizeofReport), stylus_events)
       IN  /\ stylus_size' = WideAdd(stylus_size, report.Size + SizeofReport)
           /\ stylus_wrapped' = WideCarry(stylus_size, report.Size + SizeofReport)
           /\ IF stylus_buffer.repeat = 0
              THEN stylus_cursor' = r.cursor /\ UNCHANGED stylus_buffer
              ELSE /\ stylus_cursor' = r.cursor % BlockLen
                   /\ stylus_buffer' =
                          [stylus_buffer EXCEPT !.passed = @ + (r.cursor \div BlockLen)]
           /\ stylus_events' = r.events
           /\ stylus_report' = [Type |-> report.Type, Size |-> report.Size,
                                at |-> stylus_cursor,
                                emitted |-> Len(r.events) - Len(stylus_events),
                                read |-> TRUE,
                                fit |-> Fits(stylus_buffer, stylus_cursor, SizeofReport)]
    /\ UNCHANGED <<stylus_frame, stylus_pc, rvars, svars, mvars>>

\* the loop condition fails and IptsStylusHandleInput returns
Return ==
    /\ stylus_pc = "loop"
    /\ ~WideLess(stylus_size, stylus_frame)
    /\ stylus_pc' = "done"
    /\ UNCHANGED <<stylus_buffer, stylus_frame, stylus_cursor, stylus_size, stylus_report,
                   stylus_events, stylus_wrapped, rvars, svars, mvars>>

NextStylus ==
    \/ Report
    \/ Return

SpecStylus == InitStylus /\ [][NextStylus]_vars

(***************************************************************************)
(* Claims on the stylus decoder, checked under SpecStylus.                 *)
(***************************************************************************)
\* the last iteration read a no-tilt (v1) report
NoTiltRead ==
    stylus_report.read /\ stylus_report.Type = IPTS_REPORT_TYPE_STYLUS_NO_TILT

\* the offset of sample i of the report the last iteration read
SampleAt(i) ==
    stylus_report.at + SizeofReport + SizeofReportSerial + (i - 1) * SizeofDataNoTilt

\* the sample emitted for element i of that report
Emitted(i) == stylus_events[Len(stylus_events) - stylus_report.emitted + i]

\* C15: for every v1 (no-tilt) record, whatever its 16-bit wire pressure p,
\* the sample emitted carries the pressure 4 * p, and tilt x, tilt y and
\* timestamp 0.
C15_PressureTimes4 ==
    NoTiltRead =>
        \A i \in 1..stylus_report.emitted :
            Fits(stylus_buffer, SampleAt(i), SizeofDataNoTilt) =>
                /\ Emitted(i).pressure = 4 * U16At(stylus_buffer, SampleAt(i) + 9)
                /\ Emitted(i).tilt_x = 0
                /\ Emitted(i).tilt_y = 0
                /\ Emitted(i).timestamp = 0

KnownTypes ==
    {IPTS_REPORT_TYPE_STYLUS_NO_TILT, IPTS_REPORT_TYPE_STYLUS_TILT,
     IPTS_REPORT_TYPE_STYLUS_TILT_SERIAL}

\* the buffer that holds report r alone, and what the decoder does with it
Alone(r) == [bytes |-> Encode(r), repeat |-> 0, passed |-> 0, reports |-> <<r>>]
AloneResult(r) ==
    Dispatch([Type |-> r.Type, Size |-> r.Size], Alone(r), SizeofReport, <<>>)

\* the handler of r reads exactly the r.Size payload bytes
Exact(r) == AloneResult(r).cursor = SizeofReport + r.Size

\* the samples of the reports of f, in order
RECURSIVE Samples(_)
Samples(f) == IF f = <<>> THEN <<>> ELSE AloneResult(Head(f)).events \o Samples(Tail(f))

\* an iteration that read the header of an unknown report emitted nothing
\* and left the cursor behind the report's payload
C17_Skipped ==
    (stylus_report.read /\ stylus_report.fit /\ stylus_report.Type \notin KnownTypes) =>
        /\ stylus_report.emitted = 0
        /\ stylus_buffer.repeat = 0 =>
               stylus_cursor = stylus_report.at + SizeofReport + stylus_report.Size
        /\ stylus_buffer.repeat > 0 =>
               stylus_cursor = (stylus_report.at + SizeofReport + stylus_report.Size) % BlockLen

\* when the decoder returns from a frame whose stylus reports take the
\* payload bytes they declare, the sink holds the samples of all stylus
\* reports of the frame, in order, unknown reports in between or not
C17_AllDispatched ==
    (/\ stylus_pc = "done"
     /\ stylus_buffer.repeat = 0
     /\ stylus_frame = Wide(Length(stylus_buffer))
     /\ \A k \in 1..Len(stylus_buffer.reports) : Exact(stylus_buffer.reports[k]))
    => /\ stylus_events = Samples(stylus_buffer.reports)
       /\ stylus_cursor = Length(stylus_buffer)

\* C17: a report of unknown type emits nothing, moves the decoder past
\* exactly report.size payload bytes and does not end the decoding: the
\* reports after it are read and dispatched in order.
C17_UnknownSkipped == C17_Skipped /\ C17_AllDispatched

\* C17 witness: a frame of an unknown report with payload and a stylus
\* report behind it was decoded to the end, the stylus report last, and its
\* sample is in the sink.
C17_Witness ==
    /\ stylus_pc = "done"
    /\ Len(stylus_buffer.reports) = 2
    /\ stylus_buffer.reports[1].Type \notin KnownTypes
    /\ stylus_buffer.reports[1].Size > 0
    /\ stylus_report.Type \in KnownTypes
    /\ stylus_report.at = SizeofReport + stylus_buffer.reports[1].Size
    /\ stylus_events # <<>>
    /\ stylus_events = Samples(stylus_buffer.reports)

\* C19: whatever frame.Size and the report headers, the counter of the
\* report loop never wraps around, and the loop ends with the counter at or
\* above frame.Size.
C19_NoWrap ==
    /\ ~stylus_wrapped
    /\ stylus_pc = "done" => ~WideLess(stylus_size, stylus_frame)

(***************************************************************************)
(* subspan<T> for element types wider than a byte, checked under           *)
(* SpecReader.                                                             *)
(***************************************************************************)
\* C21: subspan<T>(n) with sizeof(T) > 1 never trips a span bounds
\* assertion and never returns a span past the end of the buffer: when
\* n * sizeof(T) exceeds the bytes remaining it fails with InvalidRead or
\* EndOfData and leaves the cursor where it was, and when it succeeds the
\* cursor has advanced by exactly n * sizeof(T).
C21_SubspanWide ==
    (last.op = "subspan" /\ last.elem > 1) =>
        LET i == index(last.pre)
            bytes == last.n * last.elem
            left == Len(View(last.pre)) - i
        IN  /\ last.st # "terminate"
            /\ bytes > left =>
                   /\ last.st \in {"InvalidRead", "EndOfData"}
                   /\ Now = last.pre
            /\ last.st = "ok" =>
                   /\ Now = [last.pre EXCEPT !.m_index = i + bytes]
                   /\ last.span.ptr + last.span.len * last.span.elem
                          <= last.pre.m_data.ptr + Len(View(last.pre))

(***************************************************************************)
(* The distance between the mean reported and the mean submitted, checked  *)
(* under SpecStabilizer.                                                   *)
(***************************************************************************)
\* theta_position_lo of the configuration
PositionLo == value(m_config.position_threshold)[1]

\* the position stage snapped contact i of the last call back to the stored
\* mean of its index
Snapped(i) ==
    /\ PositionStage
    /\ Tracked(i)
    /\ PositionLo > 0
    /\ Dist2(submitted[i].mean, value(Stored(i)).mean) < PositionLo * PositionLo

\* C22 as stated: in every frame of every sequence the mean reported for an
\* indexed contact lies strictly closer than theta_position_lo to the mean
\* it was submitted with in that frame, and is the submitted mean whenever
\* no snap happened.
C22_Original ==
    (lastop = "stabilize" /\ has_value(m_config.position_threshold)) =>
        \A i \in Submitted :
            has_value(submitted[i].index) =>
                /\ Dist2(frame[i].mean, submitted[i].mean) < PositionLo * PositionLo
                /\ ~Snapped(i) => frame[i].mean = submitted[i].mean

\* C22 (amended): with theta_position_lo > 0 the mean reported for an
\* indexed contact lies strictly closer than theta_position_lo to the mean
\* submitted in the same frame, however the stored means drifted; whenever
\* no snap happened, and always with theta_position_lo = 0, it is exactly
\* the submitted mean.
C22_BoundedLag ==
    (lastop = "stabilize" /\ has_value(m_config.position_threshold)) =>
        \A i \in Submitted :
            has_value(submitted[i].index) =>
                /\ PositionLo > 0 =>
                       Dist2(frame[i].mean, submitted[i].mean) < PositionLo * PositionLo
                /\ PositionLo = 0 => frame[i].mean = submitted[i].mean
                /\ ~Snapped(i) => frame[i].mean = submitted[i].mean

\* C22 witness: in a third or later call, handed another frame than the call
\* before, a contact was snapped to a stored mean that lies across the
\* diagonal of a grid cell from its submitted mean, more than one step of
\* the grid and still less than theta_position_lo.
C22_Witness ==
    /\ calls = MaxCalls
    /\ ~repeated
    /\ \E i \in Submitted :
           /\ Snapped(i)
           /\ frame[i].mean = value(Stored(i)).mean
           /\ Dist2(frame[i].mean, submitted[i].mean) = 2 * Grid * Grid

(***************************************************************************)
(* The bytes the stylus decoder consumes, checked under SpecStylus.        *)
(***************************************************************************)
\* the header and payload sizes of the frame's reports add up to frame.Size
RECURSIVE Advertised(_)
Advertised(f) ==
    IF f = <<>> THEN 0 ELSE SizeofReport + Head(f).Size + Advertised(Tail(f))

\* C23: for a frame whose reports' (4 + report.size) add up to frame.size,
\* every known report handler consumes exactly report.size payload bytes,
\* whatever element count the report declares, so each iteration leaves the
\* cursor at the next advertised header and IptsStylusHandleInput returns
\* with the cursor advanced by exactly frame.size.
C23_ExactConsumption ==
    (/\ stylus_buffer.repeat = 0
     /\ stylus_frame = Wide(Advertised(stylus_buffer.reports))
     /\ Advertised(stylus_buffer.reports) = Length(stylus_buffer))
    => /\ (stylus_report.read /\ stylus_report.Type \in KnownTypes) =>
              stylus_cursor = stylus_report.at + SizeofReport + stylus_report.Size
       /\ stylus_pc = "done" => stylus_cursor = Narrow(stylus_frame)

====
